---- MODULE Spec2Model ----
(***************************************************************************)
(* pwnenv: the Config -> Dockerfile compiler (src/src/config.rs) and the   *)
(* AppManager lifecycle over the config root (src/src/manager.rs,          *)
(* src/src/main.rs).                                                       *)
(*                                                                         *)
(* Text is modelled by TLA+ strings: "FROM " \o base \o "\n" is the very   *)
(* string the code builds with format! and push_str.                       *)
(***************************************************************************)
EXTENDS Integers, Sequences, FiniteSets, TLC

(***************************************************************************)
(* Bounds of the compiler's input space.                                   *)
(***************************************************************************)
MaxTools == 2
MaxInstalls == 2

(***************************************************************************)
(* config.rs: ToolInstall, Tool, Config                                    *)
(***************************************************************************)
\* ToolInstall::new
ToolInstall(base_image, script) == [base_image |-> base_image, script |-> script]

\* Tool::new
Tool(name, installs) == [name |-> name, installs |-> installs]

\* Config::new (note the argument order: init_script, tools, post_script)
Config(base_image, init_script, tools, post_script) ==
    [base_image |-> base_image, init_script |-> init_script,
     post_script |-> post_script, tools |-> tools]

\* the wildcard target compared against at config.rs:211
DefaultTarget == "default"

(***************************************************************************)
(* config.rs: Config::to_dockerfile                                        *)
(***************************************************************************)
\* Iterator::find over tool.installs: the index of the first install whose
\* base_image is `target`, 0 for None.
RECURSIVE find_from(_, _, _)
find_from(installs, target, i) ==
    IF i > Len(installs) THEN 0
    ELSE IF installs[i].base_image = target THEN i
    ELSE find_from(installs, target, i + 1)

find(installs, target) == find_from(installs, target, 1)

\* a faulty variant: the wildcard install is looked up first
optimized_install_wildcard_first(tool, base_image) ==
    IF find(tool.installs, DefaultTarget) # 0 THEN 0
    ELSE find(tool.installs, base_image)

\* config.rs:204-207
optimized_install(tool, base_image) == find(tool.installs, base_image)

\* a faulty variant: the last wildcard install instead of the first
default_install_last(tool) ==
    LET hits == {i \in 1..Len(tool.installs) :
                    tool.installs[i].base_image = DefaultTarget}
    IN  IF hits = {} THEN 0 ELSE CHOOSE i \in hits : \A j \in hits : j <= i

\* config.rs:208-211
default_install(tool) == find(tool.installs, DefaultTarget)

\* for line in lines { dockerfile.push_str(format!("{}\n", line)) }
RECURSIVE push_lines(_, _)
push_lines(dockerfile, lines) ==
    IF lines = <<>> THEN dockerfile
    ELSE LET pushed == dockerfile \o Head(lines) \o "\n"
         IN  IF Len(pushed) >= 0 THEN push_lines(pushed, Tail(lines)) ELSE pushed

\* the body of `for tool in self.tools.iter()`, config.rs:203-228
emit_tool(dockerfile, tool, base_image) ==
    LET o == optimized_install(tool, base_image)
        d == default_install(tool)
    IN  IF o # 0 \/ d # 0
        THEN IF o # 0 THEN push_lines(dockerfile, tool.installs[o].script)
             ELSE IF d # 0 THEN push_lines(dockerfile, tool.installs[d].script)
             ELSE dockerfile
        ELSE dockerfile

RECURSIVE emit_tools(_, _, _)
emit_tools(dockerfile, tools, base_image) ==
    IF tools = <<>> THEN dockerfile
    ELSE LET pushed == emit_tool(dockerfile, Head(tools), base_image)
         IN  \* the buffer is built before the next iteration (Len forces it)
             IF Len(pushed) >= 0 THEN emit_tools(pushed, Tail(tools), base_image)
             ELSE pushed

\* a faulty variant: the post script is pushed before the tools
to_dockerfile_post_first(self) ==
    LET from == "FROM " \o self.base_image \o "\n"
        init == push_lines(from, self.init_script)
        post == push_lines(init, self.post_script)
    IN  emit_tools(post, self.tools, self.base_image)

\* config.rs:194-235
to_dockerfile(self) ==
    LET from  == "FROM " \o self.base_image \o "\n"
        init  == push_lines(from, self.init_script)
        tools == emit_tools(init, self.tools, self.base_image)
    IN  push_lines(tools, self.post_script)

(***************************************************************************)
(* The compiler's bounded input space.                                     *)
(***************************************************************************)
\* the base images compiled against, and the targets installs are written
\* for: an install for "amd64/ubuntu:22.04" is the exact match under that
\* base image and matches nothing under "debian:12"
BaseImages == {"amd64/ubuntu:22.04", "debian:12", DefaultTarget}
Targets == {"amd64/ubuntu:22.04", DefaultTarget}

\* The script of install j of tool i: 0, 1 or 2 lines, every line distinct.
ScriptAt(i, j) ==
    [k \in 1..((i * j + i + 1) % 3) |->
        "RUN t" \o ToString(i) \o "i" \o ToString(j) \o "l" \o ToString(k)]

SeqsUpTo(S, n) == UNION {[1..m -> S] : m \in 0..n}

ToolAt(i, targets) ==
    Tool("tool" \o ToString(i),
         [j \in 1..Len(targets) |-> ToolInstall(targets[j], ScriptAt(i, j))])

ScriptPairs ==
    { <<(<<>>), (<<>>)>>,
      <<(<<"ENV TZ Asia/Tokyo", "RUN apt update">>), (<<"RUN echo done">>)>>,
      <<(<<"">>), (<<"RUN a", "RUN b">>)>> }

CompileInputs ==
    { Config(b, sp[1], [i \in 1..Len(ts) |-> ToolAt(i, ts[i])], sp[2]) :
        b \in BaseImages, sp \in ScriptPairs,
        ts \in SeqsUpTo(SeqsUpTo(Targets, MaxInstalls), MaxTools) }

(***************************************************************************)
(* config.rs: Config::default                                              *)
(***************************************************************************)
\* IndexMap::insert: a new key is appended, an existing key keeps its place
\* and takes the new value.
insert(t, name, script) ==
    IF \E i \in 1..Len(t) : t[i][1] = name
    THEN [i \in 1..Len(t) |-> IF t[i][1] = name THEN <<name, script>> ELSE t[i]]
    ELSE Append(t, <<name, script>>)

RECURSIVE insert_all(_, _)
insert_all(t, calls) ==
    IF calls = <<>> THEN t
    ELSE LET next == insert(t, Head(calls)[1], Head(calls)[2])
         IN  \* the map is built before the next call (Len forces it)
             IF Len(next) > 0 THEN insert_all(next, Tail(calls)) ELSE next

\* the t.insert(..) calls of config.rs:28-170, in order
DefaultCatalogInserts ==
    <<
       <<"build-essential", <<"RUN apt install build-essential -y">>>>,
       <<"ca-certificates", <<"RUN apt install ca-certificates -y">>>>,
       <<"libssl-dev", <<"RUN apt install libssl-dev -y">>>>,
       <<"zlib1g-dev", <<"RUN apt install zlib1g-dev -y">>>>,
       <<"libbz2-dev", <<"RUN apt install libbz2-dev -y">>>>,
       <<"libreadline-dev", <<"RUN apt install libreadline-dev -y">>>>,
       <<"libsqlite3-dev", <<"RUN apt install libsqlite3-dev -y">>>>,
       <<"wget", <<"RUN apt install wget -y">>>>,
       <<"curl", <<"RUN apt install curl -y">>>>,
       <<"llvm", <<"RUN apt install llvm -y">>>>,
       <<"make", <<"RUN apt install make -y">>>>,
       <<"zip", <<"RUN apt install zip -y">>>>,
       <<"unzip", <<"RUN apt install unzip -y">>>>,
       <<"libncurses5-dev", <<"RUN apt install libncurses5-dev -y">>>>,
       <<"libncursesw5-dev", <<"RUN apt install libncursesw5-dev -y">>>>,
       <<"xz-utils", <<"RUN apt install xz-utils -y">>>>,
       <<"tk-dev", <<"RUN apt install tk-dev -y">>>>,
       <<"libxml2-dev", <<"RUN apt install libxml2-dev -y">>>>,
       <<"libxmlsec1-dev", <<"RUN apt install libxmlsec1-dev -y">>>>,
       <<"libffi-dev", <<"RUN apt install libffi-dev -y">>>>,
       <<"liblzma-dev", <<"RUN apt install liblzma-dev -y">>>>,
       <<"libyaml-dev", <<"RUN apt install libyaml-dev -y">>>>,
       <<"python3", <<"RUN apt install python3 -y">>>>,
       <<"python3-dev", <<"RUN apt install python3-dev -y">>>>,
       <<"python3-pip", <<"RUN apt install python3-pip -y">>>>,
       <<"gcc", <<"RUN apt install gcc -y">>>>,
       <<"tree", <<"RUN apt install tree -y">>>>,
       <<"git", <<"RUN apt install git -y">>>>,
       <<"libyaml-dev", <<"RUN apt install libyaml-dev -y">>>>,
       <<"neovim", <<"RUN apt install neovim -y">>>>,
       <<"neofetch", <<"RUN apt install neofetch -y">>>>,
       <<"openssh-server", <<"RUN apt install openssh-server -y">>>>,
       <<"patchelf", <<"RUN apt install patchelf -y">>>>,
       <<"elfutils", <<"RUN apt install elfutils -y">>>>,
       <<"psmisc", <<"RUN apt install psmisc -y">>>>,
       <<"file", <<"RUN apt install file -y">>>>,
       <<"devscripts", <<"RUN apt install devscripts -y">>>>,
       <<"fish",
          <<"RUN apt install fish -y",
            "RUN chsh -s /bin/fish",
            "RUN mkdir /root/.config/fish">>>>,
       <<"seccomp", <<"RUN apt install libseccomp-dev libseccomp2 seccomp -y">>>>,
       <<"ruby", <<"RUN apt install ruby-dev -y">>>>,
       <<"pyenv",
          <<"RUN git clone https://github.com/pyenv/pyenv.git $HOME/.pyenv",
            "RUN echo 'set -x PYENV_ROOT /root/.pyenv' >> /root/.config/fish/config.fish",
            "RUN echo 'set -x PATH  /root/.pyenv/bin $PATH' >> /root/.config/fish/config.fish",
            "RUN echo 'set -x PATH /root/.pyenv/shims $PATH' >> /root/.config/fish/config.fish",
            "RUN /root/.pyenv/bin/pyenv install pypy3.9-7.3.16",
            "RUN /root/.pyenv/bin/pyenv global pypy3.9-7.3.16",
            "ENV PATH $PATH:/root/.pyenv/shims/">>>>,
       <<"ptrlib", <<"RUN pip install ptrlib">>>>,
       <<"pwntools", <<"RUN pip install pwntools">>>>,
       <<"rust",
          <<"RUN curl https://sh.rustup.rs -sSf | sh -s -- -y",
            "RUN echo 'set -x PATH /root/.cargo/bin $PATH' >> /root/.config/fish/config.fish",
            "ENV PATH $PATH:/root/.cargo/bin">>>>,
       <<"ropr", <<"RUN cargo install ropr">>>>,
       <<"bat",
          <<"RUN cargo install bat",
            "RUN echo 'alias bat=\"bat --theme=gruvbox-dark\"' >> /root/.config/fish/config.fish">>>>,
       <<"eza",
          <<"RUN cargo install eza",
            "RUN echo 'alias ls=\"eza\"' >> /root/.config/fish/config.fish">>>>,
       <<"gdb",
          <<"RUN apt install gdb -y",
            "WORKDIR /root/tools",
            "RUN git clone https://github.com/pwndbg/pwndbg",
            "WORKDIR /root/tools/pwndbg",
            "RUN ./setup.sh",
            "RUN echo '#!/bin/bash' > /usr/local/bin/ptr",
            "RUN echo 'gdb -q -p $(pidof $1)' >> /usr/local/bin/ptr",
            "RUN echo 'set follow-fork-mode parent' >> /root/.gdbinit">>>>,
       <<"pwninit", <<"RUN cargo install pwninit">>>>,
       <<"seccomp-tools", <<"RUN gem install seccomp-tools --no-document --force">>>>,
       <<"glibc",
          <<"WORKDIR /root/",
            "RUN git clone https://github.com/bminor/glibc",
            "RUN ln -s /root/glibc /root/workspace/glibc",
            "WORKDIR /root/",
            "RUN git clone https://github.com/matrix1001/glibc-all-in-one",
            "RUN ln -s /root/glibc-all-in-one /root/workspace/glibc-all-in-one">>>>,
       <<"ripgrep",
          <<"RUN apt install ripgrep -y",
            "RUN echo 'alias grep=\"rg\"' >> /root/.config/fish/config.fish">>>>
    >>

DefaultInitScript ==
    << "ENV DEBIAN_FRONTEND noninteractive",
       "ENV TZ Asia/Tokyo",
       "RUN apt update",
       "RUN apt-get update",
       "RUN apt install -y",
       "RUN mkdir /root/tools",
       "RUN mkdir /root/workspace",
       "RUN mkdir /root/.config" >>

DefaultPostScript ==
    << "RUN echo \"set -x LC_CTYPE C.UTF-8\" >> /root/.config/fish/config.fish" >>

\* Config::default, config.rs:26-192
DefaultConfig ==
    LET t == insert_all(<<>>, DefaultCatalogInserts)
        tools == [i \in 1..Len(t) |->
                    Tool(t[i][1], <<ToolInstall(DefaultTarget, t[i][2])>>)]
    IN  Config("amd64/ubuntu:22.04", DefaultInitScript, tools, DefaultPostScript)

(***************************************************************************)
(* manager.rs: the layout (FilesInfo, RuntimeDir, ProgramsDir)             *)
(***************************************************************************)
\* home_dir().join(".config").join("pwnenv"), main.rs:20-28
ConfigDirPath == "/home/user" \o "/" \o ".config" \o "/" \o "pwnenv"

\* PathBuf::join of a relative component
join(path, name) == path \o "/" \o name

\* FilesInfo::new, RuntimeDir::new, ProgramsDir::new
FilesInfo ==
    [path |-> ConfigDirPath,
     sample_config |-> join(ConfigDirPath, "sample_config.yml"),
     config |-> join(ConfigDirPath, "config.yml"),
     runtime |->
        [path |-> join(ConfigDirPath, "runtime"),
         programs |-> join(join(ConfigDirPath, "runtime"), "programs"),
         dockerfile |-> join(join(ConfigDirPath, "runtime"), "Dockerfile"),
         docker_compose_file |->
            join(join(ConfigDirPath, "runtime"), "docker-compose.yml")]]

\* Path::strip_prefix: the rest of `path` below `base`, or an error
strip_prefix(path, base) ==
    IF path = base THEN [ok |-> TRUE, rel |-> ""]
    ELSE IF /\ Len(path) > Len(base) + 1
            /\ SubSeq(path, 1, Len(base) + 1) = base \o "/"
         THEN [ok |-> TRUE, rel |-> SubSeq(path, Len(base) + 2, Len(path))]
         ELSE [ok |-> FALSE, rel |-> ""]

\* the last component of a path (fs_extra takes it for the directory name)
file_name(path) ==
    LET slashes == {i \in 1..Len(path) : SubSeq(path, i, i) = "/"}
        last == IF slashes = {} THEN 0
                ELSE CHOOSE i \in slashes : \A j \in slashes : j <= i
    IN  SubSeq(path, last + 1, Len(path))

(***************************************************************************)
(* manager.rs: generate_docker_compose_config                              *)
(***************************************************************************)
\* the raw string of manager.rs:329-356
ComposeTemplate ==
    "\n"
    \o "version: \"3.9\"\n"
    \o "services:\n"
    \o "    pwn:\n"
    \o "        build:\n"
    \o "            context: .\n"
    \o "            dockerfile: {dockerfile}\n"
    \o "            args:\n"
    \o "                UID: $UID\n"
    \o "                GID: $GID\n"
    \o "                USERNAME: $USERNAME\n"
    \o "                GROUPNAME: $GROUPNAME\n"
    \o "        user: $UID:$GID\n"
    \o "        tty: true\n"
    \o "        privileged: true\n"
    \o "        ulimits:\n"
    \o "            core:\n"
    \o "                soft: -1\n"
    \o "                hard: -1\n"
    \o "        cap_add:\n"
    \o "            - \"SYS_PTRACE\"\n"
    \o "        security_opt:\n"
    \o "            - \"seccomp=unconfined\"\n"
    \o "        ports:\n"
    \o "            - \"127.0.0.1:3333:3333\"\n"
    \o "        volumes:\n"
    \o "            - {host_dir}:/root/workspace:rw\n"

\* str::replace: every non-overlapping match of `from`, left to right
RECURSIVE replace(_, _, _)
replace(s, from, to) ==
    LET hits == {i \in 1..(Len(s) - Len(from) + 1) :
                    SubSeq(s, i, i + Len(from) - 1) = from}
    IN  IF hits = {} THEN s
        ELSE LET i == CHOOSE h \in hits : \A k \in hits : h <= k
             IN  SubSeq(s, 1, i - 1) \o to
                 \o replace(SubSeq(s, i + Len(from), Len(s)), from, to)

\* manager.rs:328-361
generate_docker_compose_config(dockerfile_name, host_dir_path) ==
    replace(replace(ComposeTemplate, "{dockerfile}", dockerfile_name),
            "{host_dir}", host_dir_path)

\* the Dockerfile buffer of init, manager.rs:150-164
dockerfile_buffer(config) ==
    LET rel == strip_prefix(FilesInfo.runtime.programs, FilesInfo.runtime.path)
    IN  [ok |-> rel.ok,
         text |-> to_dockerfile(config)
                  \o "COPY " \o rel.rel \o " /root/workspace\n"
                  \o "WORKDIR /root/workspace\n"]

(***************************************************************************)
(* The filesystem under the config root, and the host directories.         *)
(***************************************************************************)
NoConfig == Config("", <<>>, <<>>, <<>>)

\* config.yml: the YAML text of `value` (serde_yaml::to_string), whole or
\* cut short; a text that is cut short or otherwise not a Config does not
\* parse (serde_yaml::from_str).
NoConfigFile == [exists |-> FALSE, complete |-> FALSE, value |-> NoConfig]
ConfigFile(value, complete) ==
    [exists |-> TRUE, complete |-> complete, value |-> value]

NoFile == [exists |-> FALSE, text |-> ""]
File(text) == [exists |-> TRUE, text |-> text]

NoDir == [exists |-> FALSE, entries |-> {}]
Dir(entries) == [exists |-> TRUE, entries |-> entries]

FreshFs ==
    [root |-> "absent", config |-> NoConfigFile, runtime |-> "absent",
     dockerfile |-> NoFile, compose |-> NoFile, programs |-> NoDir]

\* a config.yml edited by hand
CustomConfig ==
    Config("debian:12",
           <<"RUN apt-get update">>,
           <<Tool("gdb", <<ToolInstall(DefaultTarget, <<"RUN apt install gdb -y">>),
                           ToolInstall("debian:12", <<"RUN apt-get install -y gdb">>)>>),
             Tool("fish", <<ToolInstall(DefaultTarget, <<"RUN apt install fish -y">>)>>)>>,
           <<"RUN echo ready">>)

\* the states of the config root a first invocation can meet
InitialFs ==
    {FreshFs}
    \cup {[FreshFs EXCEPT !.root = "dir", !.config = c, !.runtime = r] :
            c \in {NoConfigFile, ConfigFile(CustomConfig, TRUE),
                   ConfigFile(CustomConfig, FALSE)},
            r \in {"absent", "dir"}}

\* the directories init is run from (current_dir, main.rs:43-50)
HostDirs == {"/home/user/ctf/chal1", "/home/user/ctf/chal2"}
NoHost == ""

HostFiles(h) ==
    IF h = "/home/user/ctf/chal1" THEN {"vuln"}
    ELSE IF h = "/home/user/ctf/chal2" THEN {"vuln", "libc.so.6"}
    ELSE {}

\* what a write_all that fails may leave of `text` in the truncated file
Prefixes(text) == {"", SubSeq(text, 1, Len(text) \div 2)}

Procs == {1, 2}
\* the processes that run one after the other under Spec
SeqProcs == {1}
Parent(p) == <<p, "parent">>
Child(p) == <<p, "child">>
Pids == {Parent(p) : p \in Procs} \cup {Child(p) : p \in Procs}

Commands == {"init", "enter", "kill"}

(***************************************************************************)
(* State                                                                   *)
(***************************************************************************)
VARIABLES
    fs,             \* the config root: root, config, runtime, dockerfile,
                    \* compose, programs
    pc,             \* where each process is (the parent of an invocation
                    \* and the child it forks)
    code,           \* the exit status of each process that has exited
    argv,           \* the engine command a process image was replaced by
    cmd,            \* the subcommand of each invocation
    host,           \* current_dir of an init invocation
    config,         \* the Config open_config returned
    log,            \* history: the steps the invocation has started, in order
    failed,         \* history: the steps of the invocation that failed
    fs0,            \* history: the filesystem when the invocation started
    after_ok,       \* history: the invocation started on the filesystem a
                    \* successful setup_minimum_requirements had just left
    last_ensured,   \* history: the last setup_minimum_requirements that
                    \* returned, [ok, fs]
    compile_in,     \* the Config handed to to_dockerfile
    compile_out     \* [done, text]: the String it returned

cvars == <<compile_in, compile_out>>
mvars == <<fs, pc, code, argv, cmd, host, config, log, failed, fs0, after_ok,
           last_ensured>>
vars == <<fs, pc, code, argv, cmd, host, config, log, failed, fs0, after_ok,
          last_ensured, compile_in, compile_out>>

\* fixed at the start of an invocation
started == <<cmd, host, fs0, after_ok>>

InitManager ==
    /\ pc = [pid \in Pids |-> IF pid[2] = "parent" THEN "idle" ELSE "none"]
    /\ code = [pid \in Pids |-> "none"]
    /\ argv = [pid \in Pids |-> "none"]
    /\ cmd = [p \in Procs |-> "enter"]
    /\ host = [p \in Procs |-> NoHost]
    /\ config = [p \in Procs |-> NoConfig]
    /\ log = [p \in Procs |-> <<>>]
    /\ failed = [p \in Procs |-> {}]
    /\ fs0 = [p \in Procs |-> FreshFs]
    /\ after_ok = [p \in Procs |-> FALSE]
    /\ last_ensured = [ok |-> FALSE, fs |-> FreshFs]

Goto(pid, label) ==
    /\ pc' = [pc EXCEPT ![pid] = label]
    /\ UNCHANGED code

\* the process ends with an exit status: "255" is exit(-1), "101" a panic
\* (an unwrap of Err), "0" and "1" what the engine returns
Die(pid, status) ==
    /\ pc' = [pc EXCEPT ![pid] = "exited"]
    /\ code' = [code EXCEPT ![pid] = status]

Logged(p, step) == log' = [log EXCEPT ![p] = Append(@, step)]
Failed(p, step) == failed' = [failed EXCEPT ![p] = @ \cup {step}]

Quiet(p) ==
    /\ pc[Parent(p)] \in {"idle", "exited"}
    /\ pc[Child(p)] \in {"none", "exited"}

\* a process image of pwnenv starts: main.rs:19
Begin(p, c, h) ==
    /\ Quiet(p)
    /\ pc' = [pc EXCEPT ![Parent(p)] = "home", ![Child(p)] = "none"]
    /\ code' = [code EXCEPT ![Parent(p)] = "none", ![Child(p)] = "none"]
    /\ argv' = [argv EXCEPT ![Parent(p)] = "none", ![Child(p)] = "none"]
    /\ cmd' = [cmd EXCEPT ![p] = c]
    /\ host' = [host EXCEPT ![p] = h]
    /\ config' = [config EXCEPT ![p] = NoConfig]
    /\ log' = [log EXCEPT ![p] = <<>>]
    /\ failed' = [failed EXCEPT ![p] = {}]
    /\ fs0' = [fs0 EXCEPT ![p] = fs]
    /\ after_ok' = [after_ok EXCEPT ![p] = last_ensured.ok /\ last_ensured.fs = fs]
    /\ UNCHANGED <<fs, last_ensured, cvars>>

\* one invocation after the other: nothing of an earlier one is still running
Start(p) ==
    /\ \A q \in Procs : Quiet(q)
    /\ \E c \in Commands :
        \E h \in (IF c = "init" THEN HostDirs ELSE {NoHost}) : Begin(p, c, h)

(***************************************************************************)
(* main.rs:20-37 and manager.rs: AppManager::setup_minimum_requirements    *)
(***************************************************************************)
\* a faulty variant: an invocation waits for the one that is running to end
Home_locked(p) ==
    /\ pc[Parent(p)] = "home"
    /\ \A q \in Procs \ {p} : pc[Parent(q)] \in {"idle", "home", "exited"}
    /\ \/ Goto(Parent(p), "s_root")
       \/ Die(Parent(p), "255")
    /\ UNCHANGED <<fs, argv, config, log, failed, last_ensured, started, cvars>>

\* home_dir(), main.rs:20-28
Home(p) ==
    /\ pc[Parent(p)] = "home"
    /\ \/ Goto(Parent(p), "s_root")
       \/ Die(Parent(p), "255")
    /\ UNCHANGED <<fs, argv, config, log, failed, last_ensured, started, cvars>>

\* the closure of manager.rs:92: fs::metadata(path).is_ok()
is_exists(f, path) ==
    CASE path = "root" -> f.root = "dir"
      [] path = "config" -> f.config.exists
      [] path = "runtime" -> f.runtime = "dir"

\* setup_minimum_requirements returns Err: main prints it and exit(-1)
SetupErr(p) ==
    /\ Die(Parent(p), "255")
    /\ Failed(p, "setup")
    /\ last_ensured' = [ok |-> FALSE, fs |-> FreshFs]

\* a faulty variant: the root directory is created without looking first
SetupRootCheck_Always(p) ==
    /\ pc[Parent(p)] = "s_root"
    /\ Goto(Parent(p), "s_root_mk")
    /\ UNCHANGED <<fs, argv, config, log, failed, last_ensured, started, cvars>>

\* manager.rs:95
SetupRootCheck(p) ==
    /\ pc[Parent(p)] = "s_root"
    /\ IF is_exists(fs, "root") THEN Goto(Parent(p), "s_cfg")
       ELSE Goto(Parent(p), "s_root_mk")
    /\ UNCHANGED <<fs, argv, config, log, failed, last_ensured, started, cvars>>

\* manager.rs:96: fs::create_dir fails when the path exists (AlreadyExists)
\* and may fail for any other reason
SetupRootCreate(p) ==
    /\ pc[Parent(p)] = "s_root_mk"
    /\ \/ /\ fs.root = "absent"
          /\ fs' = [fs EXCEPT !.root = "dir"]
          /\ Goto(Parent(p), "s_cfg")
          /\ UNCHANGED <<failed, last_ensured>>
       \/ /\ SetupErr(p)
          /\ UNCHANGED fs
    /\ UNCHANGED <<argv, config, log, started, cvars>>

\* a faulty variant: the config file is written without looking first
SetupConfigCheck_Always(p) ==
    /\ pc[Parent(p)] = "s_cfg"
    /\ Goto(Parent(p), "s_cfg_mk")
    /\ UNCHANGED <<fs, argv, config, log, failed, last_ensured, started, cvars>>

\* manager.rs:104
SetupConfigCheck(p) ==
    /\ pc[Parent(p)] = "s_cfg"
    /\ IF is_exists(fs, "config") THEN Goto(Parent(p), "s_rt")
       ELSE Goto(Parent(p), "s_cfg_mk")
    /\ UNCHANGED <<fs, argv, config, log, failed, last_ensured, started, cvars>>

\* manager.rs:105-112: File::create (creates or truncates) and write_all of
\* the YAML of Config::default(); either may fail
SetupConfigCreate(p) ==
    /\ pc[Parent(p)] = "s_cfg_mk"
    /\ \/ /\ fs.root = "dir"
          /\ fs' = [fs EXCEPT !.config = ConfigFile(DefaultConfig, TRUE)]
          /\ Goto(Parent(p), "s_rt")
          /\ UNCHANGED <<failed, last_ensured>>
       \/ /\ fs.root = "dir"
          /\ fs' = [fs EXCEPT !.config = ConfigFile(DefaultConfig, FALSE)]
          /\ SetupErr(p)
       \/ /\ SetupErr(p)
          /\ UNCHANGED fs
    /\ UNCHANGED <<argv, config, log, started, cvars>>

\* manager.rs:115, and Ok(()) at :120 when the directory is there
SetupRuntimeCheck(p) ==
    /\ pc[Parent(p)] = "s_rt"
    /\ IF is_exists(fs, "runtime")
       THEN /\ Goto(Parent(p), "parse")
            /\ last_ensured' = [ok |-> TRUE, fs |-> fs]
       ELSE /\ Goto(Parent(p), "s_rt_mk")
            /\ UNCHANGED last_ensured
    /\ UNCHANGED <<fs, argv, config, log, failed, started, cvars>>

\* manager.rs:116-120
SetupRuntimeCreate(p) ==
    /\ pc[Parent(p)] = "s_rt_mk"
    /\ \/ /\ fs.root = "dir"
          /\ fs.runtime = "absent"
          /\ fs' = [fs EXCEPT !.runtime = "dir"]
          /\ Goto(Parent(p), "parse")
          /\ last_ensured' = [ok |-> TRUE, fs |-> fs']
          /\ UNCHANGED failed
       \/ /\ SetupErr(p)
          /\ UNCHANGED fs
    /\ UNCHANGED <<argv, config, log, started, cvars>>

\* main.rs:39-59: the match on the subcommand; init takes current_dir()
Dispatch(p) ==
    /\ pc[Parent(p)] = "parse"
    /\ \/ /\ cmd[p] = "init"
          /\ Goto(Parent(p), "i_open")
       \/ /\ cmd[p] = "init"
          /\ Die(Parent(p), "255")
       \/ /\ cmd[p] = "enter"
          /\ Goto(Parent(p), "e_chdir")
       \/ /\ cmd[p] = "kill"
          /\ Goto(Parent(p), "k_chdir")
    /\ UNCHANGED <<fs, argv, config, log, failed, last_ensured, started, cvars>>

(***************************************************************************)
(* manager.rs: the calls init, enter and kill share                        *)
(***************************************************************************)
\* an Err returned to main's unwrap, or an unwrap in the manager: a panic
Panic(p, step) ==
    /\ Die(Parent(p), "101")
    /\ Failed(p, step)

\* env::set_current_dir(&files.runtime.path())
set_current_dir(p, from, to) ==
    /\ pc[Parent(p)] = from
    /\ \/ /\ fs.runtime = "dir"
          /\ Goto(Parent(p), to)
          /\ UNCHANGED failed
       \/ Panic(p, "chdir")
    /\ UNCHANGED <<fs, argv, config, log, last_ensured, started, cvars>>

\* unsafe { fork() }.unwrap(): the child starts in the Child arm
fork(p, from, to, step) ==
    /\ pc[Parent(p)] = from
    /\ Logged(p, step)
    /\ \/ /\ pc' = [pc EXCEPT ![Parent(p)] = to, ![Child(p)] = "c_exec"]
          /\ UNCHANGED <<code, failed>>
       \/ Panic(p, step)
    /\ UNCHANGED <<fs, argv, config, last_ensured, started, cvars>>

\* the Child arm: execvp("docker", ..).unwrap(); on Err the child panics
child_execvp(p, c, args, step) ==
    /\ pc[Child(p)] = "c_exec"
    /\ cmd[p] = c
    /\ \/ /\ Goto(Child(p), "engine")
          /\ argv' = [argv EXCEPT ![Child(p)] = args]
          /\ UNCHANGED failed
       \/ /\ Die(Child(p), "101")
          /\ Failed(p, step)
          /\ UNCHANGED argv
    /\ UNCHANGED <<fs, config, log, last_ensured, started, cvars>>

\* a faulty variant: the parent does not wait for the child
waitpid_nohang(p, from, to, step) ==
    /\ pc[Parent(p)] = from
    /\ Goto(Parent(p), to)
    /\ UNCHANGED <<fs, argv, config, log, failed, last_ensured, started, cvars>>

\* the Parent arm: waitpid(child, None).unwrap() returns once the child has
\* terminated, whatever its status; on Err the parent panics
waitpid(p, from, to, step) ==
    /\ pc[Parent(p)] = from
    /\ \/ /\ pc[Child(p)] = "exited"
          /\ Goto(Parent(p), to)
          /\ UNCHANGED failed
       \/ Panic(p, step)
    /\ UNCHANGED <<fs, argv, config, log, last_ensured, started, cvars>>

\* execvp("docker", ..).unwrap() in the parent: the process image is
\* replaced, or the parent panics
execvp(p, from, args, step) ==
    /\ pc[Parent(p)] = from
    /\ Logged(p, step)
    /\ \/ /\ Goto(Parent(p), "engine")
          /\ argv' = [argv EXCEPT ![Parent(p)] = args]
          /\ UNCHANGED failed
       \/ /\ Panic(p, step)
          /\ UNCHANGED argv
    /\ UNCHANGED <<fs, config, last_ensured, started, cvars>>

\* the step of the command an engine invocation belongs to
StepOf(args) ==
    CASE args = "up" -> "up"
      [] args = "exec" -> "attach"
      [] args = "kill" -> "stop"
      [] args = "rm" -> "remove"

\* the engine command a process was replaced by ends, with status 0 or not
EngineExit(pid) ==
    /\ pc[pid] = "engine"
    /\ \E status \in {"0", "1"} :
        /\ Die(pid, status)
        /\ failed' = [failed EXCEPT ![pid[1]] =
                        IF status = "0" THEN @ ELSE @ \cup {StepOf(argv[pid])}]
    /\ UNCHANGED <<fs, argv, config, log, last_ensured, started, cvars>>

(***************************************************************************)
(* manager.rs: AppManager::open_config and AppManager::init                *)
(***************************************************************************)
\* manager.rs:124-134 called at :137: open, read_to_string, from_str
InitOpenConfig(p) ==
    /\ pc[Parent(p)] = "i_open"
    /\ Logged(p, "load")
    /\ \/ /\ fs.config.exists
          /\ fs.config.complete
          /\ config' = [config EXCEPT ![p] = fs.config.value]
          /\ Goto(Parent(p), "i_chdir")
          /\ UNCHANGED failed
       \/ /\ Panic(p, "load")
          /\ UNCHANGED config
    /\ UNCHANGED <<fs, argv, last_ensured, started, cvars>>

\* manager.rs:141-146
InitChdir(p) == set_current_dir(p, "i_chdir", "i_dockerfile")

\* manager.rs:148-171: File::create (creates or truncates) and write_all
InitWriteDockerfile(p) ==
    /\ pc[Parent(p)] = "i_dockerfile"
    /\ Logged(p, "dockerfile")
    /\ LET buffer == dockerfile_buffer(config[p]) IN
       \/ /\ buffer.ok
          /\ fs.runtime = "dir"
          /\ fs' = [fs EXCEPT !.dockerfile = File(buffer.text)]
          /\ Goto(Parent(p), "i_compose")
          /\ UNCHANGED failed
       \/ /\ buffer.ok
          /\ fs.runtime = "dir"
          /\ \E left \in Prefixes(buffer.text) :
                fs' = [fs EXCEPT !.dockerfile = File(left)]
          /\ Panic(p, "dockerfile")
       \/ /\ Panic(p, "dockerfile")
          /\ UNCHANGED fs
    /\ UNCHANGED <<argv, config, last_ensured, started, cvars>>

\* manager.rs:173-186
InitWriteCompose(p) ==
    /\ pc[Parent(p)] = "i_compose"
    /\ Logged(p, "compose")
    /\ LET buffer == generate_docker_compose_config("Dockerfile", host[p]) IN
       \/ /\ fs.runtime = "dir"
          /\ fs' = [fs EXCEPT !.compose = File(buffer)]
          /\ Goto(Parent(p), "i_remove")
          /\ UNCHANGED failed
       \/ /\ fs.runtime = "dir"
          /\ \E left \in Prefixes(buffer) :
                fs' = [fs EXCEPT !.compose = File(left)]
          /\ Panic(p, "compose")
       \/ /\ Panic(p, "compose")
          /\ UNCHANGED fs
    /\ UNCHANGED <<argv, config, last_ensured, started, cvars>>

\* a faulty variant: the programs directory is left in place
InitRemovePrograms_keep(p) ==
    /\ pc[Parent(p)] = "i_remove"
    /\ Logged(p, "mirror")
    /\ Goto(Parent(p), "i_copy")
    /\ UNCHANGED <<fs, failed>>
    /\ UNCHANGED <<argv, config, last_ensured, started, cvars>>

\* manager.rs:190-199: fs::remove_dir_all; NotFound is ignored, any other
\* error is returned, with whatever had been removed by then gone
InitRemovePrograms(p) ==
    /\ pc[Parent(p)] = "i_remove"
    /\ Logged(p, "mirror")
    /\ \/ /\ ~fs.programs.exists
          /\ Goto(Parent(p), "i_copy")
          /\ UNCHANGED <<fs, failed>>
       \/ /\ fs.programs.exists
          /\ fs' = [fs EXCEPT !.programs = NoDir]
          /\ Goto(Parent(p), "i_copy")
          /\ UNCHANGED failed
       \/ /\ \E kept \in SUBSET fs.programs.entries :
                fs' = [fs EXCEPT !.programs.entries = kept]
          /\ Panic(p, "mirror")
    /\ UNCHANGED <<argv, config, last_ensured, started, cvars>>

\* what fs_extra::dir::copy(host, programs, {copy_inside, overwrite}) is to
\* write: the files of the host directory, below programs when that does
\* not exist and below programs/<name of the host directory> when it does
copy_target(f, h) ==
    LET below == IF f.programs.exists THEN file_name(h) \o "/" ELSE ""
    IN  {[path |-> below \o name, data |-> join(h, name)] : name \in HostFiles(h)}

overwrite(entries, new) ==
    {e \in entries : \A n \in new : n.path # e.path} \cup new

\* manager.rs:200-210
InitCopyPrograms(p) ==
    /\ pc[Parent(p)] = "i_copy"
    /\ LET target == copy_target(fs, host[p]) IN
       \/ /\ fs.runtime = "dir"
          /\ fs' = [fs EXCEPT !.programs = Dir(overwrite(fs.programs.entries, target))]
          /\ Goto(Parent(p), "i_fork")
          /\ UNCHANGED failed
       \/ /\ fs.runtime = "dir"
          /\ \E copied \in SUBSET target :
                fs' = [fs EXCEPT !.programs = Dir(overwrite(fs.programs.entries, copied))]
          /\ Panic(p, "mirror")
       \/ /\ Panic(p, "mirror")
          /\ UNCHANGED fs
    /\ UNCHANGED <<argv, config, log, last_ensured, started, cvars>>

\* manager.rs:215
InitFork(p) == fork(p, "i_fork", "i_wait", "up")

\* manager.rs:216-229
InitChildExec(p) == child_execvp(p, "init", "up", "up")

\* manager.rs:230-232
InitWait(p) == waitpid(p, "i_wait", "i_exec", "up")

\* manager.rs:236-250
InitExec(p) == execvp(p, "i_exec", "exec", "attach")

(***************************************************************************)
(* manager.rs: AppManager::enter                                           *)
(***************************************************************************)
\* manager.rs:259-264
EnterChdir(p) == set_current_dir(p, "e_chdir", "e_exec")

\* manager.rs:266-277
EnterExec(p) == execvp(p, "e_exec", "exec", "attach")

(***************************************************************************)
(* manager.rs: AppManager::kill                                            *)
(***************************************************************************)
\* manager.rs:285-290
KillChdir(p) == set_current_dir(p, "k_chdir", "k_fork")

\* manager.rs:292
KillFork(p) == fork(p, "k_fork", "k_wait", "stop")

\* manager.rs:293-305
KillChildExec(p) == child_execvp(p, "kill", "kill", "stop")

\* manager.rs:306-308
KillWait(p) == waitpid(p, "k_wait", "k_exec", "stop")

\* manager.rs:311-322
KillExec(p) == execvp(p, "k_exec", "rm", "remove")

(***************************************************************************)
(* Spec: invocations of pwnenv, one after the other.                       *)
(***************************************************************************)
Init ==
    /\ fs \in InitialFs
    /\ InitManager
    /\ compile_in = NoConfig
    /\ compile_out = [done |-> FALSE, text |-> ""]

Step(p) ==
    \/ Home(p)
    \/ SetupRootCheck(p)
    \/ SetupRootCreate(p)
    \/ SetupConfigCheck(p)
    \/ SetupConfigCreate(p)
    \/ SetupRuntimeCheck(p)
    \/ SetupRuntimeCreate(p)
    \/ Dispatch(p)
    \/ InitOpenConfig(p)
    \/ InitChdir(p)
    \/ InitWriteDockerfile(p)
    \/ InitWriteCompose(p)
    \/ InitRemovePrograms(p)
    \/ InitCopyPrograms(p)
    \/ InitFork(p)
    \/ InitChildExec(p)
    \/ InitWait(p)
    \/ InitExec(p)
    \/ EnterChdir(p)
    \/ EnterExec(p)
    \/ KillChdir(p)
    \/ KillFork(p)
    \/ KillChildExec(p)
    \/ KillWait(p)
    \/ KillExec(p)
    \/ EngineExit(Parent(p))
    \/ EngineExit(Child(p))

Next == \E p \in SeqProcs : Start(p) \/ Step(p)

Spec == Init /\ [][Next]_vars

(***************************************************************************)
(* SpecConc: two invocations of pwnenv at once on one config root.  The    *)
(* code takes no lock and keeps no pid file (main.rs:19-61), so the steps  *)
(* of the two processes interleave freely.                                 *)
(***************************************************************************)
\* the states of the config root the two invocations can meet
ConcFs ==
    {FreshFs,
     [FreshFs EXCEPT !.root = "dir", !.config = ConfigFile(CustomConfig, TRUE),
                     !.runtime = "dir"]}

\* the two inits are run from different directories
HostOf(p) == IF p = 1 THEN "/home/user/ctf/chal1" ELSE "/home/user/ctf/chal2"

\* both process images have been started (main.rs:19) and neither has run
\* yet; one that starts later is one that takes its first step later
InitConc ==
    /\ fs \in ConcFs
    /\ pc = [pid \in Pids |-> IF pid[2] = "parent" THEN "home" ELSE "none"]
    /\ code = [pid \in Pids |-> "none"]
    /\ argv = [pid \in Pids |-> "none"]
    /\ cmd = [p \in Procs |-> "init"]
    /\ host = [p \in Procs |-> HostOf(p)]
    /\ config = [p \in Procs |-> NoConfig]
    /\ log = [p \in Procs |-> <<>>]
    /\ failed = [p \in Procs |-> {}]
    /\ fs0 = [p \in Procs |-> fs]
    /\ after_ok = [p \in Procs |-> FALSE]
    /\ last_ensured = [ok |-> FALSE, fs |-> FreshFs]
    /\ compile_in = NoConfig
    /\ compile_out = [done |-> FALSE, text |-> ""]

StepConc(p) ==
    \/ Home(p)
    \/ SetupRootCheck(p)
    \/ SetupRootCreate(p)
    \/ SetupConfigCheck(p)
    \/ SetupConfigCreate(p)
    \/ SetupRuntimeCheck(p)
    \/ SetupRuntimeCreate(p)
    \/ Dispatch(p)
    \/ InitOpenConfig(p)
    \/ InitChdir(p)
    \/ InitWriteDockerfile(p)
    \/ InitWriteCompose(p)
    \/ InitRemovePrograms(p)
    \/ InitCopyPrograms(p)
    \/ InitFork(p)
    \/ InitChildExec(p)
    \/ InitWait(p)
    \/ InitExec(p)
    \/ EngineExit(Parent(p))
    \/ EngineExit(Child(p))

NextConc == \E p \in Procs : StepConc(p)

SpecConc == InitConc /\ [][NextConc]_vars

(***************************************************************************)
(* SpecCompile: to_dockerfile applied to every input of CompileInputs.     *)
(***************************************************************************)
InitCompile ==
    /\ compile_in \in CompileInputs
    /\ compile_out = [done |-> FALSE, text |-> ""]
    /\ fs = FreshFs
    /\ InitManager

Compile ==
    /\ ~compile_out.done
    /\ compile_out' = [done |-> TRUE, text |-> to_dockerfile(compile_in)]
    /\ UNCHANGED <<compile_in, mvars>>

NextCompile == Compile

SpecCompile == InitCompile /\ [][NextCompile]_vars

(***************************************************************************)
(* Reading a script text back: its "\n"-terminated lines.                  *)
(***************************************************************************)
RECURSIVE SplitFrom(_, _, _)
SplitFrom(text, start, i) ==
    IF i > Len(text)
    THEN IF start > Len(text) THEN <<>> ELSE <<SubSeq(text, start, Len(text))>>
    ELSE IF SubSeq(text, i, i) = "\n"
         THEN <<SubSeq(text, start, i - 1)>> \o SplitFrom(text, i + 1, i + 1)
         ELSE SplitFrom(text, start, i + 1)

SplitLines(text) == SplitFrom(text, 1, 1)

Terminated(text) == text = "" \/ SubSeq(text, Len(text), Len(text)) = "\n"

OutLines == SplitLines(compile_out.text)

\* What the installs of a tool say, read off declaratively.
ExactAt(tool, base) ==
    {i \in 1..Len(tool.installs) : tool.installs[i].base_image = base}
WildAt(tool) ==
    {i \in 1..Len(tool.installs) : tool.installs[i].base_image = DefaultTarget}
Least(S) == CHOOSE i \in S : \A j \in S : i <= j

Chosen(tool, base) ==
    IF ExactAt(tool, base) # {} THEN tool.installs[Least(ExactAt(tool, base))].script
    ELSE IF WildAt(tool) # {} THEN tool.installs[Least(WildAt(tool))].script
    ELSE <<>>

RECURSIVE ChosenUpTo(_, _)
ChosenUpTo(cfg, n) ==
    IF n = 0 THEN <<>>
    ELSE ChosenUpTo(cfg, n - 1) \o Chosen(cfg.tools[n], cfg.base_image)

\* the number of output lines that precede the lines of tool t
Offset(cfg, t) == 1 + Len(cfg.init_script) + Len(ChosenUpTo(cfg, t - 1))

WithoutTool(cfg, t) ==
    [cfg EXCEPT !.tools = SubSeq(cfg.tools, 1, t - 1)
                          \o SubSeq(cfg.tools, t + 1, Len(cfg.tools))]

InsertAt(lines, k, more) ==
    SubSeq(lines, 1, k) \o more \o SubSeq(lines, k + 1, Len(lines))

\* C1: a tool with both an install for the config's base image and a
\* wildcard ("default") install contributes exactly the lines of its first
\* exact-match install, in order, at its place in the output, and nothing
\* of the wildcard install, whichever of the two is listed first.
C1_ExactMatchWins ==
    compile_out.done =>
        \A t \in 1..Len(compile_in.tools) :
            LET tool == compile_in.tools[t]
                base == compile_in.base_image
            IN  (ExactAt(tool, base) # {} /\ WildAt(tool) # {}) =>
                    /\ Terminated(compile_out.text)
                    /\ OutLines =
                         InsertAt(SplitLines(to_dockerfile(WithoutTool(compile_in, t))),
                                  Offset(compile_in, t),
                                  tool.installs[Least(ExactAt(tool, base))].script)

\* a compiled config holding a tool whose wildcard install is listed before
\* its exact-match install, both with lines of their own
C1_Witness ==
    /\ compile_out.done
    /\ compile_in.base_image # DefaultTarget
    /\ \E t \in 1..Len(compile_in.tools) :
        LET tool == compile_in.tools[t] IN
        /\ Len(tool.installs) = 2
        /\ tool.installs[1].base_image = DefaultTarget
        /\ tool.installs[2].base_image = compile_in.base_image
        /\ tool.installs[1].script # <<>>
        /\ tool.installs[2].script # <<>>

\* C2: a tool with no install for the config's base image contributes
\* exactly the lines of its first wildcard install if it has one, and
\* otherwise no line at all: the output is then the output of the config
\* without that tool, and a script is still returned.
C2_WildcardOrNothing ==
    compile_out.done =>
        \A t \in 1..Len(compile_in.tools) :
            LET tool == compile_in.tools[t]
                rest == SplitLines(to_dockerfile(WithoutTool(compile_in, t)))
            IN  ExactAt(tool, compile_in.base_image) = {} =>
                    /\ Terminated(compile_out.text)
                    /\ IF WildAt(tool) # {}
                       THEN OutLines =
                              InsertAt(rest, Offset(compile_in, t),
                                       tool.installs[Least(WildAt(tool))].script)
                       ELSE OutLines = rest

\* a compiled config with one tool that has two wildcard installs and no
\* exact match, and one tool that has installs but neither kind
C2_Witness ==
    /\ compile_out.done
    /\ Len(compile_in.tools) = 2
    /\ \E t, u \in 1..2 :
        /\ ExactAt(compile_in.tools[t], compile_in.base_image) = {}
        /\ Cardinality(WildAt(compile_in.tools[t])) = 2
        /\ Chosen(compile_in.tools[t], compile_in.base_image) # <<>>
        /\ compile_in.tools[u].installs # <<>>
        /\ ExactAt(compile_in.tools[u], compile_in.base_image) = {}
        /\ WildAt(compile_in.tools[u]) = {}

\* C3: the output is one "FROM <base image>" line, then the init-script
\* lines, then the selected install lines of each tool in catalog order,
\* then the post-script lines, each line once and "\n"-terminated.
C3_OutputShape ==
    compile_out.done =>
        /\ Terminated(compile_out.text)
        /\ OutLines = <<"FROM " \o compile_in.base_image>>
                      \o compile_in.init_script
                      \o ChosenUpTo(compile_in, Len(compile_in.tools))
                      \o compile_in.post_script

\* a compiled config with init lines, post lines and two tools that both
\* contribute lines
C3_Witness ==
    /\ compile_out.done
    /\ compile_in.init_script # <<>>
    /\ compile_in.post_script # <<>>
    /\ Len(compile_in.tools) = 2
    /\ \A t \in 1..2 : Chosen(compile_in.tools[t], compile_in.base_image) # <<>>

(***************************************************************************)
(* Properties of the lifecycle.                                            *)
(***************************************************************************)
InLog(p, step) == \E i \in 1..Len(log[p]) : log[p][i] = step

SetupPcs == {"s_root", "s_root_mk", "s_cfg", "s_cfg_mk", "s_rt", "s_rt_mk"}

\* the steps of init, in the order of manager.rs:136-253
InitSteps == <<"load", "dockerfile", "compose", "mirror", "up", "attach">>

IsPrefix(a, b) == Len(a) <= Len(b) /\ a = SubSeq(b, 1, Len(a))

\* C4: when the build-and-start invocation of init (compose up -d --build)
\* cannot be spawned or exits non-zero, init aborts with an error and the
\* shell-attach invocation (compose exec) is never issued.
C4_UpFailureAbortsInit ==
    \A p \in Procs :
        (cmd[p] = "init" /\ "up" \in failed[p]) =>
            /\ ~InLog(p, "attach")
            /\ argv[Parent(p)] # "exec"
            /\ pc[Parent(p)] = "exited" => code[Parent(p)] # "0"

\* C5: when the stop invocation of kill (compose kill pwn) exits non-zero,
\* kill ends with a reported failure and does not go on to the remove
\* invocation (compose rm -f pwn).
C5_KillFailureSurfaces ==
    \A p \in Procs :
        (cmd[p] = "kill" /\ argv[Child(p)] = "kill" /\ code[Child(p)] = "1") =>
            /\ ~InLog(p, "remove")
            /\ argv[Parent(p)] # "rm"

\* C6: no step of the program changes a config file that exists; the file
\* changes only when it is absent, and what is then written is the default
\* Config (whole, unless the write itself failed and the command aborted).
C6_ConfigNeverRewritten ==
    [][ /\ fs.config.exists => fs'.config = fs.config
        /\ fs'.config # fs.config =>
            /\ ~fs.config.exists
            /\ fs'.config.exists
            /\ fs'.config.value = DefaultConfig
            /\ \/ fs'.config.complete
               \/ \E p \in Procs : pc'[Parent(p)] = "exited" /\ "setup" \in failed'[p]
      ]_vars

\* an init that found a hand-edited config has run all its steps, and the
\* file is as it was
C6_Witness ==
    \E p \in Procs :
        /\ cmd[p] = "init"
        /\ InLog(p, "attach")
        /\ fs0[p].config = ConfigFile(CustomConfig, TRUE)
        /\ fs.config = fs0[p].config

\* C7: setup_minimum_requirements creates only the root and the runtime
\* directory: while it runs and when it has returned, the config file, the
\* Dockerfile and the orchestration descriptor are as they were when the
\* invocation started (absent on a fresh root).
C7_SetupCreatesOnlyDirs ==
    \A p \in Procs :
        pc[Parent(p)] \in SetupPcs \cup {"parse"} =>
            /\ fs.config = fs0[p].config
            /\ fs.dockerfile = fs0[p].dockerfile
            /\ fs.compose = fs0[p].compose

\* C8: a setup_minimum_requirements that starts on the filesystem a
\* successful one has just left does not fail, attempts no creation, and
\* leaves every directory and file as it found it.
C8_SetupIdempotent ==
    \A p \in Procs :
        after_ok[p] =>
            /\ "setup" \notin failed[p]
            /\ pc[Parent(p)] \notin {"s_root_mk", "s_cfg_mk", "s_rt_mk"}
            /\ pc[Parent(p)] \in SetupPcs \cup {"parse"} => fs = fs0[p]

\* a second setup has returned Ok on the root, default config and runtime
\* directory that a first one created
C8_Witness ==
    \E p \in Procs :
        /\ after_ok[p]
        /\ pc[Parent(p)] = "parse"
        /\ fs.config = ConfigFile(DefaultConfig, TRUE)
        /\ fs.runtime = "dir"

\* C9: init starts its steps in the order load, Dockerfile, descriptor,
\* mirror, build-and-start, attach; a step that fails is the last one
\* started and the command ends with a non-zero status; nothing is rolled
\* back (when the descriptor write fails, the Dockerfile holds the newly
\* compiled text and the programs directory is as it was).
C9_InitAbortsAtFirstFailure ==
    \A p \in Procs :
        cmd[p] = "init" =>
            /\ IsPrefix(log[p], InitSteps)
            /\ \A i \in 1..Len(InitSteps) :
                InitSteps[i] \in failed[p] =>
                    /\ Len(log[p]) = i
                    /\ pc[Parent(p)] = "exited" => code[Parent(p)] # "0"
            /\ "compose" \in failed[p] =>
                    /\ fs.dockerfile = File(dockerfile_buffer(config[p]).text)
                    /\ fs.programs = fs0[p].programs

\* C10: in init and in kill the terminal invocation (compose exec, compose
\* rm -f) is issued by the parent and only once the forked child has
\* terminated; parent and child never both run the engine; the child never
\* issues the terminal invocation.
C10_TerminalAfterForkedEnds ==
    \A p \in Procs :
        /\ (cmd[p] = "init" /\ InLog(p, "attach")) => pc[Child(p)] = "exited"
        /\ (cmd[p] = "kill" /\ InLog(p, "remove")) => pc[Child(p)] = "exited"
        /\ ~(pc[Parent(p)] = "engine" /\ pc[Child(p)] = "engine")
        /\ argv[Child(p)] \notin {"exec", "rm"}

\* init's parent has been replaced by compose exec after compose up, run by
\* the child, ended
C10_Witness ==
    \E p \in Procs :
        /\ cmd[p] = "init"
        /\ pc[Parent(p)] = "engine"
        /\ argv[Parent(p)] = "exec"
        /\ argv[Child(p)] = "up"
        /\ pc[Child(p)] = "exited"

\* the files of host directory h as entries of a directory
Mirror(h) == {[path |-> name, data |-> join(h, name)] : name \in HostFiles(h)}

\* init of p is past its mirror step, which did not fail
MirrorDone(p) ==
    /\ InLog(p, "mirror")
    /\ "mirror" \notin failed[p]
    /\ pc[Parent(p)] \notin {"i_remove", "i_copy"}

\* C11: once the mirror step of init has succeeded the programs directory
\* holds exactly the files of the host directory, whatever it held before
\* (files of an earlier init from another host directory included); the
\* copy is only ever reached with the programs directory gone, so a
\* deletion error ends init before any copy; and with the programs
\* directory absent the removal can go on to the copy.
C11_MirrorIsExact ==
    \A p \in Procs :
        cmd[p] = "init" =>
            /\ MirrorDone(p) => fs.programs = Dir(Mirror(host[p]))
            /\ pc[Parent(p)] = "i_copy" => ~fs.programs.exists
            /\ (pc[Parent(p)] = "i_remove" /\ ~fs.programs.exists) =>
                    ENABLED (InitRemovePrograms(p) /\ pc'[Parent(p)] = "i_copy")

\* the mirror step succeeded over a programs directory that held a file
\* the host directory does not have
C11_Witness ==
    \E p \in Procs :
        /\ cmd[p] = "init"
        /\ MirrorDone(p)
        /\ fs0[p].programs.exists
        /\ \E e \in fs0[p].programs.entries : e \notin Mirror(host[p])
        /\ \E e \in fs0[p].programs.entries :
                \A n \in Mirror(host[p]) : n.path # e.path

\* C12: two inits at once on one config root, from different host
\* directories, are neither serialized nor detected: an invocation starts
\* whatever the other one is doing, and the removal and the copy of its
\* mirror step can succeed wherever the other one stands.  (The
\* inconsistent outcome, with every file step of both inits having
\* succeeded, is C12_Witness.)
C12_InitsNotSerialized ==
    \A p \in Procs :
        LET at == pc[Parent(p)]
        IN  /\ at = "home" => ENABLED (Home(p) /\ pc'[Parent(p)] = "s_root")
            /\ at = "i_remove" =>
                    ENABLED (InitRemovePrograms(p) /\ pc'[Parent(p)] = "i_copy")
            /\ (at = "i_copy" /\ fs.runtime = "dir") =>
                    ENABLED (InitCopyPrograms(p) /\ pc'[Parent(p)] = "i_fork")

\* both inits are past their file steps without an error, and the
\* orchestration descriptor binds the host directory of one while the
\* programs directory mirrors the host directory of the other
C12_Witness ==
    \E a \in Procs : \E b \in Procs \ {a} :
        /\ cmd[a] = "init" /\ cmd[b] = "init"
        /\ host[a] # host[b]
        /\ MirrorDone(a) /\ MirrorDone(b)
        /\ failed[a] = {} /\ failed[b] = {}
        /\ fs.compose = File(generate_docker_compose_config("Dockerfile", host[a]))
        /\ fs.programs = Dir(Mirror(host[b]))

\* C13: ensure_exists fails only when a directory creation fails for a
\* reason other than the directory being there already, under every
\* interleaving: an invocation whose creation call finds the root or the
\* runtime directory in place, made by the other invocation since its own
\* existence check, does not end in an error at that call.
C13_NoFailureOnExistingDir ==
    [][\A p \in Procs :
          (\/ pc[Parent(p)] = "s_root_mk" /\ fs.root = "dir"
           \/ pc[Parent(p)] = "s_rt_mk" /\ fs.runtime = "dir")
              => pc'[Parent(p)] # "exited"]_vars

====
